---- MODULE Spec2Model ----
(***************************************************************************)
(* A model of the rusty_spine wrapper layer:                               *)
(*   - src/extension.rs : the process-wide Extension registry of the three *)
(*     host callbacks and the three extern "C" dispatchers that lock it;   *)
(*   - src/skeleton.rs  : Skeleton::new / drop, the bones vector and       *)
(*     find_bone;                                                          *)
(*   - examples/bevy.rs : the per-frame driver spine_update;               *)
(*   - src/color.rs     : the Color value type.                            *)
(* Each part has its own specification over the shared variables; the      *)
(* variables of the other parts stay at their initial value.               *)
(***************************************************************************)
EXTENDS Integers, Sequences, FiniteSets, TLC

VARIABLES
    \* ---- extension.rs
    extension,   \* the singleton Extension: its three Option<Box<dyn Fn>> fields
    lockOwner,   \* the thread holding the singleton's Mutex, 0 when unlocked
    aborted,     \* the process died from a panic leaving an extern "C" fn
    pc,          \* per thread: "idle", "blocked" in lock(), or "relock": in lock()
                 \* on the mutex its own dispatch holds
    result,      \* per thread: what its last completed call did and returned
    page,        \* per atlas page: load state and which callbacks ran for it
    latest,      \* history: the callback most recently registered, per kind, and by whom
    \* ---- skeleton.rs
    strong,      \* Arc<SkeletonData> strong count
    dataAlive,   \* the SkeletonData behind the Arc has not been dropped
    handles,     \* Arc handles the host holds outside any Skeleton
    skel,        \* per Skeleton value: its life state, fields and bones vector
    engine,      \* engine skeletons (spSkeleton_create) not yet disposed
    found,       \* per Skeleton value: the last find_bone call and its result
    \* ---- examples/bevy.rs
    frame,       \* number of the frame spine_update is running (or ran last)
    fpc,         \* position of spine_update: [spine, step, slot]
    anim,        \* per spine: frame of the last update / apply, pose applied
    world,       \* per spine: world transform and the frame that computed it
    reads,       \* per spine and slot: the world position read, and in which frame
    \* ---- color.rs
    color,       \* a Color value <<r, g, b, a>>
    colorCall    \* the last Color method called on it, with its arguments

extVars   == <<extension, lockOwner, aborted, pc, result, page, latest>>
skelVars  == <<strong, dataAlive, handles, skel, engine, found>>
frameVars == <<frame, fpc, anim, world, reads>>
colorVars == <<color, colorCall>>
vars      == <<extVars, skelVars, frameVars, colorVars>>

(***************************************************************************)
(*                          src/extension.rs                               *)
(***************************************************************************)

\* Host threads; thread t drives atlas instance t, whose page is page t.
NThreads == 2
Threads  == 1..NThreads
Pages    == Threads

None == "None"

\* Host closures handed to the set_*_cb functions.  "tex1"/"tex2" store a
\* texture on the page (the doc example); "texViaReadFile" loads the image
\* through an engine file read; "disp" disposes the page's texture;
\* "dispRegisters" calls set_create_texture_cb from inside the callback.
CreateCbs  == {"tex1", "tex2", "texViaReadFile"}
DisposeCbs == {"disp", "dispRegisters"}
ReadCbs    == {"rdA", "rdB"}
Reentrant(cb) == cb \in {"texViaReadFile", "dispRegisters"}

Paths == {"a", "b", "c"}

\* A usize is kept as two 16-bit limbs, hi * 2^16 + lo.
Limb == 65536
Usize(h, l) == [hi |-> h, lo |-> l]

\* Option<Vec<u8>> / io::Result<Vec<u8>>: the bytes are known by an identity
\* and a length.
Absent       == [some |-> FALSE, id |-> "", len |-> Usize(0, 0)]
Bytes(i, n)  == [some |-> TRUE, id |-> i, len |-> n]

\* std::fs::read(path) on the host's filesystem.
FsRead(path) ==
    CASE path = "a" -> Bytes("fs:a", Usize(0, 3))
      [] path = "b" -> Absent
      [] OTHER      -> Bytes("fs:c", Usize(32768, 0))

\* What the host's read-file closures return.
CbRead(cb, path) ==
    CASE cb = "rdA" /\ path = "a" -> Absent
      [] cb = "rdA" /\ path = "b" -> Bytes("rdA:b", Usize(0, 0))
      [] cb = "rdA" /\ path = "c" -> Bytes("rdA:c", Usize(0, 5))
      [] cb = "rdB" /\ path = "a" -> Bytes("rdB:a", Usize(32768, 0))
      [] cb = "rdB" /\ path = "b" -> Bytes("rdB:b", Usize(0, 1))
      [] OTHER                    -> Absent

\* `x as c_int` for a usize x: the low 32 bits, read as a signed integer.
AsCInt(n) ==
    LET h == n.hi % Limb
    IN  IF h >= Limb \div 2 THEN (h - Limb) * Limb + n.lo ELSE h * Limb + n.lo

\* *mut c_char returned to the engine: null, or a spine_malloc'ed buffer
\* holding `size` bytes copied from the Vec with identity `id`.
NullPtr      == [null |-> TRUE, id |-> "", size |-> Usize(0, 0)]
Buffer(i, n) == [null |-> FALSE, id |-> i, size |-> n]

\* The caller's *c_length before the call.
LengthInits == {-1, 7}

DefaultExtension ==
    [create_texture_cb |-> None, dispose_texture_cb |-> None, read_file_cb |-> None]

StoreCreateFirstWins(ext, cb) ==
    IF ext.create_texture_cb = None THEN [ext EXCEPT !.create_texture_cb = cb] ELSE ext

\* `extension.create_texture_cb = Some(Box::new(create_texture_cb))`
StoreCreateTextureCb(ext, cb) == [ext EXCEPT !.create_texture_cb = cb]

\* `extension.dispose_texture_cb = Some(Box::new(dispose_texture_cb))`
StoreDisposeTextureCb(ext, cb) == [ext EXCEPT !.dispose_texture_cb = cb]

StoreReadFirstWins(ext, cb) ==
    IF ext.read_file_cb = None THEN [ext EXCEPT !.read_file_cb = cb] ELSE ext

\* `extension.read_file_cb = Some(Box::new(read_file_cb))`
StoreReadFileCb(ext, cb) == [ext EXCEPT !.read_file_cb = cb]

\* `if let Some(cb) = &extension.create_texture_cb`: the callback a dispatch
\* for page p runs.  The page plays no part in the choice.
CreateCallback(ext, p) == ext.create_texture_cb

DisposeCallbackIsCreate(ext, p) == ext.create_texture_cb

\* `if let Some(cb) = &extension.dispose_texture_cb`
DisposeCallback(ext, p) == ext.dispose_texture_cb

\* The body of _spUtil_readFile under the lock: the pointer returned, the
\* caller's length afterwards, what the read yielded and whether
\* std::fs::read ran.
ReadFile(ext, path, length) ==
    IF ext.read_file_cb # None
    THEN LET data == CbRead(ext.read_file_cb, path)
         IN  IF data.some
             THEN [ptr |-> Buffer(data.id, data.len), length |-> AsCInt(data.len),
                   data |-> data, usedFs |-> FALSE]
             ELSE [ptr |-> NullPtr, length |-> length, data |-> data, usedFs |-> FALSE]
    ELSE LET data == FsRead(path)
         IN  IF data.some
             THEN [ptr |-> Buffer(data.id, data.len), length |-> AsCInt(data.len),
                   data |-> data, usedFs |-> TRUE]
             ELSE [ptr |-> NullPtr, length |-> length, data |-> data, usedFs |-> TRUE]

NoCbs == [create |-> None, dispose |-> None, read |-> None, createBy |-> 0]

NoResult ==
    [op |-> "none", path |-> "", latest |-> None,
     ptr |-> NullPtr, length |-> 0, length0 |-> 0, data |-> Absent, usedFs |-> FALSE]

NewPage ==
    [state |-> "unloaded", createInvoked |-> None, createReg |-> None,
     disposeInvoked |-> None, disposeReg |-> None]

\* Thread t calls an extension function and singleton.lock() hands it the
\* guard.  Each function holds the guard from its second statement to its
\* end, so a call that gets the lock runs as one step.
Locks(t) ==
    /\ ~aborted
    /\ pc[t] = "idle"
    /\ lockOwner = 0
    /\ UNCHANGED <<skelVars, frameVars, colorVars>>

\* The guard is dropped at the end of the function: the call returns.
Return(t) == UNCHANGED <<lockOwner, aborted, pc>>

\* Thread t calls an extension function while the mutex is held:
\* singleton.lock() blocks until the holder drops its guard.
Blocks(t) ==
    /\ ~aborted
    /\ pc[t] = "idle"
    /\ lockOwner # 0
    /\ pc' = [pc EXCEPT ![t] = "blocked"]
    /\ UNCHANGED <<extension, lockOwner, aborted, result, page, latest>>
    /\ UNCHANGED <<skelVars, frameVars, colorVars>>

\* A callback that itself enters an extension function calls lock() on the
\* mutex its own dispatcher holds.  std::sync::Mutex leaves that unspecified:
\* the call never returns, it blocks for ever or panics, and a panic that
\* leaves the extern "C" dispatcher aborts the process.
Reenter(t) ==
    \/ /\ lockOwner' = t
       /\ pc' = [pc EXCEPT ![t] = "relock"]
       /\ aborted' = aborted
    \/ /\ aborted' = TRUE
       /\ UNCHANGED <<lockOwner, pc>>

set_create_texture_cb(t) ==
    /\ Locks(t)
    /\ \E cb \in CreateCbs :
          /\ extension' = StoreCreateTextureCb(extension, cb)
          /\ latest' = [latest EXCEPT !.create = cb, !.createBy = t]
    /\ Return(t)
    /\ UNCHANGED <<result, page>>

set_dispose_texture_cb(t) ==
    /\ Locks(t)
    /\ \E cb \in DisposeCbs :
          /\ extension' = StoreDisposeTextureCb(extension, cb)
          /\ latest' = [latest EXCEPT !.dispose = cb]
    /\ Return(t)
    /\ UNCHANGED <<result, page>>

set_read_file_cb(t) ==
    /\ Locks(t)
    /\ \E cb \in ReadCbs :
          /\ extension' = StoreReadFileCb(extension, cb)
          /\ latest' = [latest EXCEPT !.read = cb]
    /\ Return(t)
    /\ result' = [result EXCEPT ![t] = [NoResult EXCEPT !.op = "set_read_file_cb"]]
    /\ UNCHANGED page

\* The engine loads page t of thread t's atlas (spAtlas_create).  With no
\* callback the page is loaded all the same, with no texture.
_spAtlasPage_createTexture(t) ==
    /\ Locks(t)
    /\ page[t].state = "unloaded"
    /\ UNCHANGED <<extension, latest, result>>
    /\ LET cb == CreateCallback(extension, t)
       IN  IF cb # None /\ Reentrant(cb)
           THEN /\ page' = [page EXCEPT ![t].state = "loading",
                                        ![t].createInvoked = cb,
                                        ![t].createReg = latest.create]
                /\ Reenter(t)
           ELSE /\ page' = [page EXCEPT ![t].state = "loaded",
                                        ![t].createInvoked = cb,
                                        ![t].createReg = latest.create]
                /\ Return(t)

\* The engine disposes page t (spAtlas_dispose).
_spAtlasPage_disposeTexture(t) ==
    /\ Locks(t)
    /\ page[t].state = "loaded"
    /\ UNCHANGED <<extension, latest, result>>
    /\ LET cb == DisposeCallback(extension, t)
       IN  IF cb # None /\ Reentrant(cb)
           THEN /\ page' = [page EXCEPT ![t].state = "disposing",
                                        ![t].disposeInvoked = cb,
                                        ![t].disposeReg = latest.dispose]
                /\ Reenter(t)
           ELSE /\ page' = [page EXCEPT ![t].state = "disposed",
                                        ![t].disposeInvoked = cb,
                                        ![t].disposeReg = latest.dispose]
                /\ Return(t)

\* The engine reads a file: _spUtil_readFile(c_path, c_length).
_spUtil_readFile(t) ==
    /\ Locks(t)
    /\ \E path \in Paths, length \in LengthInits :
          LET r == ReadFile(extension, path, length)
          IN  result' = [result EXCEPT ![t] =
                            [op |-> "_spUtil_readFile", path |-> path,
                             latest |-> latest.read,
                             ptr |-> r.ptr, length |-> r.length, length0 |-> length,
                             data |-> r.data, usedFs |-> r.usedFs]]
    /\ Return(t)
    /\ UNCHANGED <<extension, latest, page>>

InitExtension ==
    /\ extension = DefaultExtension
    /\ lockOwner = 0
    /\ aborted = FALSE
    /\ pc = [t \in Threads |-> "idle"]
    /\ result = [t \in Threads |-> NoResult]
    /\ page = [p \in Pages |-> NewPage]
    /\ latest = NoCbs

NextRead ==
    \E t \in Threads :
        \/ set_read_file_cb(t)
        \/ _spUtil_readFile(t)

NextTexture ==
    \E t \in Threads :
        \/ set_create_texture_cb(t)
        \/ set_dispose_texture_cb(t)
        \/ _spAtlasPage_createTexture(t)
        \/ _spAtlasPage_disposeTexture(t)
        \/ Blocks(t)

(***************************************************************************)
(*                           src/skeleton.rs                               *)
(***************************************************************************)

\* Skeleton values the host may create over a run, and the cap on Arc clones.
MaxSkeletons == 2
MaxStrong    == 3
SkelIds      == 1..MaxSkeletons

\* The bones of the shared SkeletonData, by engine bone index 0..bonesCount-1.
BoneNames == <<"root", "hip", "head">>
bonesCount == Len(BoneNames)

\* Names handed to find_bone: the bones, a name no bone has, and a name with
\* an interior NUL character.
LookupNames == {"root", "hip", "head", "tail", "hi<NUL>p"}
HasNul(name) == name = "hi<NUL>p"

\* A Bone wrapper: the pointer to engine bone `index` of engine skeleton `of`.
Bone(s, i) == [of |-> s, index |-> i]

NoSkeleton == [state |-> "none", holdsData |-> FALSE, bones |-> <<>>, pristine |-> FALSE]

SkeletonBorrowsData(s) ==
    [state |-> "live", holdsData |-> FALSE,
     bones |-> [k \in 1..bonesCount |-> Bone(s, k - 1)], pristine |-> TRUE]

\* The value Skeleton::new returns: c_skeleton is engine skeleton s, the Arc
\* it was given is kept in _skeleton_data, and bones holds one Bone per
\* engine bone, pushed for i in 0..bone_count.
SkeletonFields(s) ==
    [state |-> "live", holdsData |-> TRUE,
     bones |-> [k \in 1..bonesCount |-> Bone(s, k - 1)], pristine |-> TRUE]

\* Arc::drop: the strong count falls by one, and the SkeletonData is dropped
\* when it reaches zero.
ArcDrop ==
    /\ strong' = strong - 1
    /\ dataAlive' = (dataAlive /\ strong - 1 > 0)

\* spSkeleton_findBone: the engine bone index with that name, -1 for null.
spSkeleton_findBone(name) ==
    IF \E k \in 1..bonesCount : BoneNames[k] = name
    THEN (CHOOSE k \in 1..bonesCount : BoneNames[k] = name) - 1
    ELSE -1

NoBone == [some |-> FALSE, bone |-> Bone(0, 0)]
SomeBone(b) == [some |-> TRUE, bone |-> b]

\* Skeleton::find_bone on a Skeleton value sk.
FindBone(sk, name) ==
    IF ~HasNul(name)
    THEN LET index == spSkeleton_findBone(name)
         IN  IF index # -1
             THEN IF index + 1 \in 1..Len(sk.bones)
                  THEN SomeBone(sk.bones[index + 1])
                  ELSE NoBone
             ELSE NoBone
    ELSE NoBone

NoFound == [name |-> "", res |-> NoBone]

\* let data2 = skeleton_data.clone()
CloneHandle ==
    /\ handles > 0
    /\ strong < MaxStrong
    /\ handles' = handles + 1
    /\ strong' = strong + 1
    /\ UNCHANGED <<dataAlive, skel, engine, found>>
    /\ UNCHANGED <<extVars, frameVars, colorVars>>

\* The host drops one of its Arc handles.
DropHandle ==
    /\ handles > 0
    /\ handles' = handles - 1
    /\ ArcDrop
    /\ UNCHANGED <<skel, engine, found>>
    /\ UNCHANGED <<extVars, frameVars, colorVars>>

\* Skeleton::new(skeleton_data): the handle moves into the call.  An Arc the
\* returned value does not keep is dropped when new returns.
Skeleton_new(s) ==
    /\ skel[s].state = "none"
    /\ handles > 0
    /\ handles' = handles - 1
    /\ engine' = engine \cup {s}
    /\ skel' = [skel EXCEPT ![s] = SkeletonFields(s)]
    /\ IF SkeletonFields(s).holdsData
       THEN UNCHANGED <<strong, dataAlive>>
       ELSE ArcDrop
    /\ UNCHANGED found
    /\ UNCHANGED <<extVars, frameVars, colorVars>>

\* The owner drops Skeleton s.  There is no Drop impl: the fields are dropped
\* (the Arc and the Vec<Bone>), the engine skeleton behind c_skeleton stays.
DropSkeleton(s) ==
    /\ skel[s].state = "live"
    /\ skel' = [skel EXCEPT ![s] = [NoSkeleton EXCEPT !.state = "dropped"]]
    /\ found' = [found EXCEPT ![s] = NoFound]
    /\ IF skel[s].holdsData
       THEN ArcDrop
       ELSE UNCHANGED <<strong, dataAlive>>
    /\ UNCHANGED <<handles, engine>>
    /\ UNCHANGED <<extVars, frameVars, colorVars>>

\* Skeleton::update_world_transform: the engine recomputes the bones' world
\* transforms in place; the wrapper's fields stay as they are.
update_world_transform(s) ==
    /\ skel[s].state = "live"
    /\ found' = [found EXCEPT ![s] = NoFound]
    /\ UNCHANGED <<strong, dataAlive, handles, skel, engine>>
    /\ UNCHANGED <<extVars, frameVars, colorVars>>

Swap(seq, i, j) == [seq EXCEPT ![i] = seq[j], ![j] = seq[i]]
Remove(seq, i) == SubSeq(seq, 1, i - 1) \o SubSeq(seq, i + 1, Len(seq))

\* Edits through the &mut Vec<Bone> that bones_mut returns: swap(i, j),
\* remove(i) and clear().
bones_mut(s) ==
    /\ skel[s].state = "live"
    /\ LET v == skel[s].bones
       IN  \/ \E i, j \in 1..Len(v) :
                /\ i < j
                /\ skel' = [skel EXCEPT ![s].bones = Swap(v, i, j), ![s].pristine = FALSE]
           \/ \E i \in 1..Len(v) :
                skel' = [skel EXCEPT ![s].bones = Remove(v, i), ![s].pristine = FALSE]
           \/ /\ Len(v) > 0
              /\ skel' = [skel EXCEPT ![s].bones = <<>>, ![s].pristine = FALSE]
    /\ found' = [found EXCEPT ![s] = NoFound]
    /\ UNCHANGED <<strong, dataAlive, handles, engine>>
    /\ UNCHANGED <<extVars, frameVars, colorVars>>

\* skeleton.find_bone(name)
find_bone(s) ==
    /\ skel[s].state = "live"
    /\ \E name \in LookupNames :
          found' = [found EXCEPT ![s] = [name |-> name, res |-> FindBone(skel[s], name)]]
    /\ UNCHANGED <<strong, dataAlive, handles, skel, engine>>
    /\ UNCHANGED <<extVars, frameVars, colorVars>>

\* load_skeleton: Arc::new(skeleton_data), one handle, no Skeleton yet.
InitSkeleton ==
    /\ strong = 1
    /\ dataAlive = TRUE
    /\ handles = 1
    /\ skel = [s \in SkelIds |-> NoSkeleton]
    /\ engine = {}
    /\ found = [s \in SkelIds |-> NoFound]

NextSkeleton ==
    \/ CloneHandle
    \/ DropHandle
    \/ \E s \in SkelIds : Skeleton_new(s)
    \/ \E s \in SkelIds : DropSkeleton(s)
    \/ \E s \in SkelIds : update_world_transform(s)
    \/ \E s \in SkelIds : find_bone(s)

NextBones ==
    \/ CloneHandle
    \/ \E s \in SkelIds : Skeleton_new(s)
    \/ \E s \in SkelIds : update_world_transform(s)
    \/ \E s \in SkelIds : bones_mut(s)
    \/ \E s \in SkelIds : find_bone(s)

(***************************************************************************)
(*                     examples/bevy.rs: spine_update                      *)
(***************************************************************************)

\* Entities with a Spine component, slots per skeleton, frames run.
NSpines   == 2
NSlots    == 2
MaxFrames == 3
Spines    == 1..NSpines
Slots     == 1..NSlots

\* The local pose AnimationState::apply leaves on the skeleton's bones.
Poses == {"poseA", "poseB"}

ProgramReadsFirst == <<"update", "apply", "slots", "update_world_transform">>

\* The statements of the loop body, in the order the loop runs them:
\* animation_state.update(0.016); animation_state.apply(skeleton);
\* skeleton.update_world_transform(); for slot in skeleton.slots_mut() ...
Program == <<"update", "apply", "update_world_transform", "slots">>

Idle == [spine |-> 0, k |-> 0, slot |-> 0]

\* The system is at statement `step` of the loop body for spine fpc.spine.
At(step) == fpc.spine # 0 /\ Program[fpc.k] = step

\* The position after the current statement: the next statement, the next
\* spine (z += 0.01), or the end of the system.
Advance ==
    IF fpc.k < Len(Program)
    THEN [spine |-> fpc.spine, k |-> fpc.k + 1, slot |-> 1]
    ELSE IF fpc.spine < NSpines
         THEN [spine |-> fpc.spine + 1, k |-> 1, slot |-> 1]
         ELSE Idle

\* The host's schedule runs the system once per frame.
BeginFrame ==
    /\ fpc = Idle
    /\ frame < MaxFrames
    /\ frame' = frame + 1
    /\ fpc' = [spine |-> 1, k |-> 1, slot |-> 1]
    /\ UNCHANGED <<anim, world, reads>>
    /\ UNCHANGED <<extVars, skelVars, colorVars>>

\* animation_state.update(0.016)
Frame_update ==
    /\ At("update")
    /\ anim' = [anim EXCEPT ![fpc.spine].updated = frame]
    /\ fpc' = Advance
    /\ UNCHANGED <<frame, world, reads>>
    /\ UNCHANGED <<extVars, skelVars, colorVars>>

\* animation_state.apply(skeleton)
Frame_apply ==
    /\ At("apply")
    /\ \E pose \in Poses :
          anim' = [anim EXCEPT ![fpc.spine].applied = frame,
                               ![fpc.spine].updatedAtApply = anim[fpc.spine].updated,
                               ![fpc.spine].local = pose]
    /\ fpc' = Advance
    /\ UNCHANGED <<frame, world, reads>>
    /\ UNCHANGED <<extVars, skelVars, colorVars>>

\* skeleton.update_world_transform()
Frame_update_world_transform ==
    /\ At("update_world_transform")
    /\ world' = [world EXCEPT ![fpc.spine] =
                    [pose |-> anim[fpc.spine].local, computed |-> frame,
                     appliedAtCompute |-> anim[fpc.spine].applied]]
    /\ fpc' = Advance
    /\ UNCHANGED <<frame, anim, reads>>
    /\ UNCHANGED <<extVars, skelVars, colorVars>>

\* One turn of the slot loop: slot.bone().world_x() and world_y() are read
\* and written, scaled, to the slot entity's Transform.
Frame_slot ==
    /\ At("slots")
    /\ reads' = [reads EXCEPT ![fpc.spine][fpc.slot] =
                    [frame |-> frame, computed |-> world[fpc.spine].computed,
                     xy |-> world[fpc.spine].pose]]
    /\ fpc' = IF fpc.slot < NSlots THEN [fpc EXCEPT !.slot = fpc.slot + 1] ELSE Advance
    /\ UNCHANGED <<frame, anim, world>>
    /\ UNCHANGED <<extVars, skelVars, colorVars>>

\* After setup: the skeletons are in the setup pose and spine_update has not
\* run.
InitFrame ==
    /\ frame = 0
    /\ fpc = Idle
    /\ anim = [i \in Spines |-> [updated |-> 0, applied |-> 0, updatedAtApply |-> 0,
                                 local |-> "setup"]]
    /\ world = [i \in Spines |-> [pose |-> "unset", computed |-> 0, appliedAtCompute |-> 0]]
    /\ reads = [i \in Spines |-> [j \in Slots |-> [frame |-> 0, computed |-> 0,
                                                   xy |-> "unset"]]]

NextFrame ==
    \/ BeginFrame
    \/ Frame_update
    \/ Frame_apply
    \/ Frame_update_world_transform
    \/ Frame_slot

(***************************************************************************)
(*                             src/color.rs                                *)
(***************************************************************************)

\* A c_float channel is kept in fixed point: v stands for v / Unit, so Unit
\* is 1.0.  Channels range over -1/Unit .. MaxChannel/Unit.
Unit        == 2
MaxChannel  == 3
ChannelVals == -1..MaxChannel

Rgba(r, g, b, a) == [r |-> r, g |-> g, b |-> b, a |-> a]

\* f32::clamp(0., 1.)
Clamp01(v) == IF v < 0 THEN 0 ELSE IF v > Unit THEN Unit ELSE v

\* Color::clamp: r is clamped first, and g, b and a are then set from the
\* clamped self.r.
ColorClamp(c) ==
    LET r1 == Clamp01(c.r)
    IN  Rgba(r1, Clamp01(r1), Clamp01(r1), Clamp01(r1))

NoArgs == <<>>

colorFrame == UNCHANGED <<extVars, skelVars, frameVars>>

\* set_r, set_g, set_b, set_a
Color_set ==
    /\ \E v \in ChannelVals :
          \/ color' = [color EXCEPT !.r = v] /\ colorCall' = [op |-> "set_r", args |-> NoArgs]
          \/ color' = [color EXCEPT !.g = v] /\ colorCall' = [op |-> "set_g", args |-> NoArgs]
          \/ color' = [color EXCEPT !.b = v] /\ colorCall' = [op |-> "set_b", args |-> NoArgs]
          \/ color' = [color EXCEPT !.a = v] /\ colorCall' = [op |-> "set_a", args |-> NoArgs]
    /\ colorFrame

Color_set_from_floats ==
    /\ \E r, g, b, a \in ChannelVals :
          /\ color' = ColorClamp(Rgba(r, g, b, a))
          /\ colorCall' = [op |-> "set_from_floats", args |-> <<r, g, b, a>>]
    /\ colorFrame

Color_set_from_floats3 ==
    /\ \E r, g, b \in ChannelVals :
          color' = ColorClamp(Rgba(r, g, b, color.a))
    /\ colorCall' = [op |-> "set_from_floats3", args |-> NoArgs]
    /\ colorFrame

Color_add_floats ==
    /\ \E r, g, b, a \in ChannelVals :
          color' = ColorClamp(Rgba(color.r + r, color.g + g, color.b + b, color.a + a))
    /\ colorCall' = [op |-> "add_floats", args |-> NoArgs]
    /\ colorFrame

Color_add_floats3 ==
    /\ \E r, g, b \in ChannelVals :
          color' = ColorClamp(Rgba(color.r + r, color.g + g, color.b + b, color.a))
    /\ colorCall' = [op |-> "add_floats3", args |-> NoArgs]
    /\ colorFrame

\* add_color(other), other any Color
Color_add_color ==
    /\ \E r, g, b, a \in ChannelVals :
          color' = ColorClamp(Rgba(color.r + r, color.g + g, color.b + b, color.a + a))
    /\ colorCall' = [op |-> "add_color", args |-> NoArgs]
    /\ colorFrame

Color_clamp ==
    /\ color' = ColorClamp(color)
    /\ colorCall' = [op |-> "clamp", args |-> NoArgs]
    /\ colorFrame

\* Color::default()
InitColorDefault ==
    /\ color = Rgba(0, 0, 0, 0)
    /\ colorCall = [op |-> "default", args |-> NoArgs]

\* Color::new_rgba(r, g, b, a)
InitColor ==
    /\ color \in [r : ChannelVals, g : ChannelVals, b : ChannelVals, a : ChannelVals]
    /\ colorCall = [op |-> "new_rgba", args |-> NoArgs]

NextColor ==
    \/ Color_set
    \/ Color_set_from_floats
    \/ Color_set_from_floats3
    \/ Color_add_floats
    \/ Color_add_floats3
    \/ Color_add_color
    \/ Color_clamp

InitAll == InitExtension /\ InitSkeleton /\ InitFrame /\ InitColorDefault

SpecRead == InitAll /\ [][NextRead]_vars

SpecTexture == InitAll /\ [][NextTexture]_vars

SpecSkeleton == InitAll /\ [][NextSkeleton]_vars

SpecBones == InitAll /\ [][NextBones]_vars

SpecFrame == InitAll /\ [][NextFrame]_vars

InitColorAll == InitExtension /\ InitSkeleton /\ InitFrame /\ InitColor

SpecColor == InitColorAll /\ [][NextColor]_vars

(***************************************************************************)
(*                              The claims                                 *)
(***************************************************************************)

\* The pointer returned holds exactly the bytes `data`, or is null for absent.
PtrHolds(ptr, data) ==
    IF data.some
    THEN ~ptr.null /\ ptr.id = data.id /\ ptr.size = data.len
    ELSE ptr.null

\* The c_int c is the usize n.
IsLength(c, n) == n.hi < Limb \div 2 /\ c = n.hi * Limb + n.lo

FileReads == {t \in Threads : result[t].op = "_spUtil_readFile"}

\* C1: an engine file read made while a read-file callback is registered
\* returns what the most recently registered callback returns for the path,
\* bytes or absent, and does not call std::fs::read; std::fs::read is called
\* only when no callback was ever registered, and then decides the result.
C1_ReadUsesHook ==
    \A t \in FileReads :
        LET r == result[t]
        IN  IF r.latest # None
            THEN /\ ~r.usedFs
                 /\ r.data = CbRead(r.latest, r.path)
                 /\ PtrHolds(r.ptr, CbRead(r.latest, r.path))
            ELSE /\ r.usedFs
                 /\ r.data = FsRead(r.path)
                 /\ PtrHolds(r.ptr, FsRead(r.path))

\* A read answered absent by the hook for a path the filesystem holds, after
\* another thread's read had gone to the filesystem.
C1_Witness ==
    \E t, u \in FileReads :
        /\ result[t].latest # None
        /\ ~result[t].data.some
        /\ result[t].ptr.null
        /\ FsRead(result[t].path).some
        /\ result[u].usedFs

\* C7: on both paths a read that yields bytes returns a non-null copy of
\* them and reports their number as the length, and a read that yields
\* absent returns null and leaves the caller's length as it was.
C7_SameShape ==
    \A t \in FileReads :
        LET r == result[t]
        IN  IF r.data.some
            THEN /\ ~r.ptr.null
                 /\ r.ptr.id = r.data.id
                 /\ r.ptr.size = r.data.len
                 /\ IsLength(r.length, r.data.len)
            ELSE /\ r.ptr.null
                 /\ r.length = r.length0

\* C2 as stated: a registration made for one instance (by its thread) leaves
\* the callback dispatched for every other instance's page as it was.
C2_PerInstance ==
    [][\A t \in Threads :
          (latest' # latest /\ latest'.createBy = t) =>
              \A q \in Pages \ {t} :
                  CreateCallback(extension', q) = CreateCallback(extension, q)]_vars

\* C2 amended: the callbacks are one process-wide registry; the callback
\* dispatched for any page of any instance is the one most recently
\* registered, by whichever thread.
C2_ProcessWide ==
    \A q \in Pages :
        /\ CreateCallback(extension, q) = latest.create
        /\ DisposeCallback(extension, q) = latest.dispose

\* A page was loaded with a callback that another instance's thread had
\* registered, replacing an earlier registration.
C2_Witness ==
    \E p \in Pages :
        /\ page[p].state = "loaded"
        /\ page[p].createInvoked # None
        /\ page[p].createInvoked = latest.create
        /\ latest.createBy # p
        /\ latest.dispose # None

\* C4 as stated: every loaded page had a create-texture callback invoked
\* for it, and every disposed page whose texture was created had a
\* dispose-texture callback invoked for it.
C4_EveryPage ==
    \A p \in Pages :
        /\ page[p].state \in {"loaded", "disposing", "disposed"} =>
              page[p].createInvoked # None
        /\ (page[p].state = "disposed" /\ page[p].createInvoked # None) =>
              page[p].disposeInvoked # None

\* C4 amended: a page load invokes, for that page, the create-texture
\* callback registered at that moment, and a page disposal the
\* dispose-texture callback registered at that moment; with none registered
\* nothing is invoked and the load or disposal goes on.
C4_WhenRegistered ==
    \A p \in Pages :
        /\ page[p].createInvoked = page[p].createReg
        /\ page[p].disposeInvoked = page[p].disposeReg
        /\ page[p].state = "unloaded" => page[p].disposeInvoked = None

\* A page whose texture was created and which was disposed with no
\* dispose-texture callback registered, and another loaded with no texture.
C4_Witness ==
    \E p, q \in Pages :
        /\ page[p].state = "disposed"
        /\ page[p].createInvoked # None
        /\ page[p].disposeInvoked = None
        /\ page[q].state = "loaded"
        /\ page[q].createInvoked = None

\* C9: no dispatch or registration deadlocks: the process is not aborted and
\* no thread waits for the registry lock that its own dispatch holds.
C9_NoDeadlock ==
    /\ ~aborted
    /\ \A t \in Threads : ~(pc[t] = "relock" /\ lockOwner = t)

Live == {s \in SkelIds : skel[s].state = "live"}

\* C3: the SkeletonData is alive while a Skeleton created from it is, and is
\* released only when no handle and no such Skeleton is left.
C3_DataOutlivesSkeletons ==
    /\ Live # {} => dataAlive
    /\ ~dataAlive => (handles = 0 /\ Live = {})

\* The host has dropped all its handles and one Skeleton; another Skeleton
\* alone keeps the data alive.
C3_Witness ==
    /\ handles = 0
    /\ Cardinality(Live) = 1
    /\ \E s \in SkelIds : skel[s].state = "dropped"
    /\ dataAlive

\* C5: the engine skeleton of a dropped Skeleton has been released: the live
\* engine skeletons are those of the live Skeleton values.
C5_EngineSkeletonReleased ==
    /\ engine = Live
    /\ Cardinality(engine) = Cardinality(Live)

\* C8: a new Skeleton has one Bone per engine bone in index order, and
\* find_bone(name) returns the skeleton's own bone of that name if it has
\* one, and None for a name no bone has or that contains NUL.
C8_FindBoneConsistent ==
    \A s \in Live :
        /\ skel[s].pristine =>
              skel[s].bones = [k \in 1..bonesCount |-> Bone(s, k - 1)]
        /\ found[s].name # "" =>
              IF ~HasNul(found[s].name) /\ spSkeleton_findBone(found[s].name) # -1
              THEN found[s].res = SomeBone(Bone(s, spSkeleton_findBone(found[s].name)))
              ELSE found[s].res = NoBone

\* C6: in every frame and for every skeleton, apply follows that frame's
\* update, update_world_transform follows that frame's apply, and a world
\* position is read only after that frame's update_world_transform.
C6_ReadAfterRecompute ==
    \A i \in Spines :
        /\ anim[i].applied # 0 => anim[i].updatedAtApply = anim[i].applied
        /\ world[i].computed # 0 => world[i].appliedAtCompute = world[i].computed
        /\ \A j \in Slots :
              reads[i][j].frame # 0 => reads[i][j].computed = reads[i][j].frame

\* In a later frame, with the previous frame's world transform on hand, a
\* slot of the last skeleton has been read.
C6_Witness ==
    /\ frame >= 2
    /\ reads[NSpines][NSlots].frame = frame
    /\ reads[NSpines][NSlots].computed = frame

InUnit(v) == 0 <= v /\ v <= Unit

\* C10: clamp limits each channel on its own to [0, 1]; set_from_floats with
\* in-range arguments stores them; set_from_floats3 and add_floats3 leave an
\* in-range alpha as it was.
C10_ClampPerChannel ==
    [][/\ colorCall'.op = "clamp" =>
             color' = Rgba(Clamp01(color.r), Clamp01(color.g),
                           Clamp01(color.b), Clamp01(color.a))
       /\ (/\ colorCall'.op = "set_from_floats"
           /\ \A k \in 1..4 : InUnit(colorCall'.args[k])) =>
             color' = Rgba(colorCall'.args[1], colorCall'.args[2],
                           colorCall'.args[3], colorCall'.args[4])
       /\ (/\ colorCall'.op \in {"set_from_floats3", "add_floats3"}
           /\ InUnit(color.a)) =>
             color'.a = color.a]_vars
====
